---- MODULE Spec2Model ----
(***************************************************************************)
(* Model of the healthcare assessment client: the field parsers and the    *)
(* risk rubric (utils.js), the batch analyzer (risk-analyzer.js), the      *)
(* retrying paginated API client (api-client.js) and the top-level run     *)
(* (index.js).                                                             *)
(*                                                                         *)
(* JavaScript values are tagged records.  A string is a sequence of        *)
(* one-character strings.  A number is a decimal m / 10^k, kept exactly;   *)
(* comparisons are made by cross-multiplication, which agrees with the     *)
(* comparison of the doubles for the decimals used here.                   *)
(***************************************************************************)
EXTENDS Integers, Sequences, FiniteSets, TLC

----------------------------------------------------------------------------
(* Bounds of the model *)

MaxPages == 2
MaxAttempts == 3
MaxPatients == 2
MaxRuns == 2

----------------------------------------------------------------------------
(* config.js *)

RETRY_ATTEMPTS == 3
RETRY_DELAY == 1000
RATE_LIMIT_DELAY == 2000
INTER_PAGE_DELAY == 500

BP_NORMAL == 1
BP_ELEVATED == 2
BP_STAGE_1 == 3
BP_STAGE_2 == 4
BP_INVALID == 0

TEMP_NORMAL == 0
TEMP_LOW_FEVER == 1
TEMP_HIGH_FEVER == 2
TEMP_INVALID == 0

AGE_UNDER_40 == 1
AGE_40_65 == 1
AGE_OVER_65 == 2
AGE_INVALID == 0

HIGH_RISK_SCORE == 4

----------------------------------------------------------------------------
(* JavaScript values *)

Null == [t |-> "null"]
Undefined == [t |-> "undefined"]
Str(cs) == [t |-> "string", s |-> cs]
Num(m, k) == [t |-> "number", m |-> m, k |-> k]

RECURSIVE Pow10(_)
Pow10(k) == IF k = 0 THEN 1 ELSE 10 * Pow10(k - 1)

\* a >= b, a > b, a <= b, a < b on decimals m / 10^k
NumGE(a, b) == a.m * Pow10(b.k) >= b.m * Pow10(a.k)
NumGT(a, b) == a.m * Pow10(b.k) > b.m * Pow10(a.k)
NumLE(a, b) == NumGE(b, a)
NumLT(a, b) == NumGT(b, a)
NumEq(a, b) == a.m * Pow10(b.k) = b.m * Pow10(a.k)

Int10(n) == Num(n, 0)
FEVER_TEMPERATURE == Num(996, 1)

Digits == {"0", "1", "2", "3", "4", "5", "6", "7", "8", "9"}

DigitVal(c) ==
  CASE c = "0" -> 0 [] c = "1" -> 1 [] c = "2" -> 2 [] c = "3" -> 3
    [] c = "4" -> 4 [] c = "5" -> 5 [] c = "6" -> 6 [] c = "7" -> 7
    [] c = "8" -> 8 [] c = "9" -> 9

\* String.prototype.trim: white space is removed at both ends
RECURSIVE TrimLeft(_)
TrimLeft(cs) ==
  IF cs # <<>> /\ Head(cs) = " " THEN TrimLeft(Tail(cs)) ELSE cs

RECURSIVE TrimRight(_)
TrimRight(cs) ==
  IF cs # <<>> /\ cs[Len(cs)] = " "
  THEN TrimRight(SubSeq(cs, 1, Len(cs) - 1))
  ELSE cs

Trim(cs) == TrimRight(TrimLeft(cs))

\* String.prototype.split('/'): the segments between the separators
RECURSIVE SplitSlash(_, _)
SplitSlash(cs, cur) ==
  IF cs = <<>> THEN <<cur>>
  ELSE IF Head(cs) = "/" THEN <<cur>> \o SplitSlash(Tail(cs), <<>>)
  ELSE SplitSlash(Tail(cs), Append(cur, Head(cs)))

Split(cs) == SplitSlash(cs, <<>>)

\* longest prefix of decimal digits
RECURSIVE DigitPrefix(_)
DigitPrefix(cs) ==
  IF cs # <<>> /\ Head(cs) \in Digits
  THEN <<Head(cs)>> \o DigitPrefix(Tail(cs))
  ELSE <<>>

RECURSIVE DigitsValue(_, _)
DigitsValue(ds, acc) ==
  IF ds = <<>> THEN acc
  ELSE DigitsValue(Tail(ds), 10 * acc + DigitVal(Head(ds)))

NaN == [t |-> "NaN"]

\* parseFloat: leading white space is skipped, then the longest prefix
\* [sign] digits [. digits] | [sign] . digits is converted; anything after
\* it is ignored; no such prefix gives NaN.  (Strings of the model carry no
\* exponent and no "Infinity".)
ParseFloat(cs) ==
  LET value(sign, ip, fp) ==
        IF ip = <<>> /\ fp = <<>> THEN NaN
        ELSE Num(sign * DigitsValue(ip \o fp, 0), Len(fp))
      fraction(s2) ==
        IF s2 # <<>> /\ Head(s2) = "." THEN DigitPrefix(Tail(s2)) ELSE <<>>
      afterInteger(sign, s1, ip) ==
        value(sign, ip, fraction(SubSeq(s1, Len(ip) + 1, Len(s1))))
      afterSign(sign, s1) == afterInteger(sign, s1, DigitPrefix(s1))
      afterSpace(s0) ==
        IF s0 # <<>> /\ Head(s0) = "-" THEN afterSign(-1, Tail(s0))
        ELSE IF s0 # <<>> /\ Head(s0) = "+" THEN afterSign(1, Tail(s0))
        ELSE afterSign(1, s0)
  IN  afterSpace(TrimLeft(cs))

IsNaN(x) == x.t = "NaN"

\* !value for the values of the model
Falsy(v) ==
  \/ v.t \in {"null", "undefined"}
  \/ v.t = "string" /\ v.s = <<>>
  \/ v.t = "number" /\ v.m = 0

StrNull == <<"n", "u", "l", "l">>
StrUndefined == <<"u", "n", "d", "e", "f", "i", "n", "e", "d">>

----------------------------------------------------------------------------
(* utils.js: field parsers *)

InvalidBP == [systolic |-> Null, diastolic |-> Null, isValid |-> FALSE]

parseBloodPressure(bpString) ==
  LET ofNumbers(systolic, diastolic) ==
        IF \/ IsNaN(systolic) \/ IsNaN(diastolic)
           \/ NumLE(systolic, Int10(0)) \/ NumLE(diastolic, Int10(0))
        THEN InvalidBP
        ELSE [systolic |-> systolic, diastolic |-> diastolic,
              isValid |-> TRUE]
      ofParts(parts) ==
        IF Len(parts) # 2 THEN InvalidBP
        ELSE ofNumbers(ParseFloat(parts[1]), ParseFloat(parts[2]))
      ofTrimmed(trimmed) ==
        IF trimmed = <<>> \/ trimmed = StrNull \/ trimmed = StrUndefined
        THEN InvalidBP
        ELSE ofParts(Split(trimmed))
  IN  IF Falsy(bpString) \/ bpString.t # "string" THEN InvalidBP
      ELSE ofTrimmed(Trim(bpString.s))

InvalidTemperature == [temperature |-> Null, isValid |-> FALSE]

parseTemperature(tempValue) ==
  LET ofNumber(temperature) ==
        IF \/ IsNaN(temperature) \/ NumLE(temperature, Int10(0))
           \/ NumGT(temperature, Int10(120))
        THEN InvalidTemperature
        ELSE [temperature |-> temperature, isValid |-> TRUE]
      ofTrimmed(trimmed) ==
        IF trimmed = <<>> \/ trimmed = StrNull \/ trimmed = StrUndefined
        THEN InvalidTemperature
        ELSE ofNumber(ParseFloat(trimmed))
  IN  IF tempValue.t \in {"null", "undefined"} THEN InvalidTemperature
      ELSE IF tempValue.t = "number"
      THEN IF NumGT(tempValue, Int10(0)) /\ NumLE(tempValue, Int10(120))
           THEN [temperature |-> tempValue, isValid |-> TRUE]
           ELSE InvalidTemperature
      ELSE IF tempValue.t = "string" THEN ofTrimmed(Trim(tempValue.s))
      ELSE InvalidTemperature

InvalidAge == [age |-> Null, isValid |-> FALSE]

parseAge(ageValue) ==
  LET ofNumber(age) ==
        IF IsNaN(age) \/ NumLE(age, Int10(0)) \/ NumGT(age, Int10(150))
        THEN InvalidAge
        ELSE [age |-> age, isValid |-> TRUE]
      ofTrimmed(trimmed) ==
        IF trimmed = <<>> \/ trimmed = StrNull \/ trimmed = StrUndefined
        THEN InvalidAge
        ELSE ofNumber(ParseFloat(trimmed))
  IN  IF ageValue.t \in {"null", "undefined"} THEN InvalidAge
      ELSE IF ageValue.t = "number"
      THEN IF NumGT(ageValue, Int10(0)) /\ NumLE(ageValue, Int10(150))
           THEN [age |-> ageValue, isValid |-> TRUE]
           ELSE InvalidAge
      ELSE IF ageValue.t = "string" THEN ofTrimmed(Trim(ageValue.s))
      ELSE InvalidAge

----------------------------------------------------------------------------
(* utils.js: risk rubric *)

\* calculateBloodPressureRisk with Stage 1 decided by the systolic value only
calculateBloodPressureRisk_systolicOnly(bpString) ==
  LET risk(isValid, systolic, diastolic) ==
        IF ~isValid THEN BP_INVALID
        ELSE IF NumGE(systolic, Int10(140)) \/ NumGE(diastolic, Int10(90))
        THEN BP_STAGE_2
        ELSE IF NumGE(systolic, Int10(130)) /\ NumLE(systolic, Int10(139))
        THEN BP_STAGE_1
        ELSE IF /\ NumGE(systolic, Int10(120)) /\ NumLE(systolic, Int10(129))
                /\ NumLT(diastolic, Int10(80))
        THEN BP_ELEVATED
        ELSE BP_NORMAL
      ofParsed(bp) == risk(bp.isValid, bp.systolic, bp.diastolic)
  IN  ofParsed(parseBloodPressure(bpString))

\* calculateBloodPressureRisk with Stage 1 reaching up to a diastolic of 90
calculateBloodPressureRisk_upTo90(bpString) ==
  LET risk(isValid, systolic, diastolic) ==
        IF ~isValid THEN BP_INVALID
        ELSE IF NumGE(systolic, Int10(140)) \/ NumGE(diastolic, Int10(90))
        THEN BP_STAGE_2
        ELSE IF \/ NumGE(systolic, Int10(130)) /\ NumLT(systolic, Int10(140))
                \/ NumGE(diastolic, Int10(80)) /\ NumLT(diastolic, Int10(90))
        THEN BP_STAGE_1
        ELSE IF /\ NumGE(systolic, Int10(120)) /\ NumLE(systolic, Int10(129))
                /\ NumLT(diastolic, Int10(80))
        THEN BP_ELEVATED
        ELSE BP_NORMAL
      ofParsed(bp) == risk(bp.isValid, bp.systolic, bp.diastolic)
  IN  ofParsed(parseBloodPressure(bpString))

calculateBloodPressureRisk(bpString) ==
  LET risk(isValid, systolic, diastolic) ==
        IF ~isValid THEN BP_INVALID
        ELSE IF NumGE(systolic, Int10(140)) \/ NumGE(diastolic, Int10(90))
        THEN BP_STAGE_2
        ELSE IF \/ NumGE(systolic, Int10(130)) /\ NumLE(systolic, Int10(139))
                \/ NumGE(diastolic, Int10(80)) /\ NumLE(diastolic, Int10(89))
        THEN BP_STAGE_1
        ELSE IF /\ NumGE(systolic, Int10(120)) /\ NumLE(systolic, Int10(129))
                /\ NumLT(diastolic, Int10(80))
        THEN BP_ELEVATED
        ELSE IF NumLT(systolic, Int10(120)) /\ NumLT(diastolic, Int10(80))
        THEN BP_NORMAL
        ELSE BP_NORMAL
      ofParsed(bp) == risk(bp.isValid, bp.systolic, bp.diastolic)
  IN  ofParsed(parseBloodPressure(bpString))

\* calculateTemperatureRisk with a low fever only above 99.6
calculateTemperatureRisk_above(tempString) ==
  LET risk(isValid, temperature) ==
        IF ~isValid THEN TEMP_INVALID
        ELSE IF NumGE(temperature, Int10(101)) THEN TEMP_HIGH_FEVER
        ELSE IF NumGT(temperature, FEVER_TEMPERATURE) THEN TEMP_LOW_FEVER
        ELSE TEMP_NORMAL
      ofParsed(p) == risk(p.isValid, p.temperature)
  IN  ofParsed(parseTemperature(tempString))

calculateTemperatureRisk(tempString) ==
  LET risk(isValid, temperature) ==
        IF ~isValid THEN TEMP_INVALID
        ELSE IF NumGE(temperature, Int10(101)) THEN TEMP_HIGH_FEVER
        ELSE IF NumGE(temperature, FEVER_TEMPERATURE) THEN TEMP_LOW_FEVER
        ELSE TEMP_NORMAL
      ofParsed(p) == risk(p.isValid, p.temperature)
  IN  ofParsed(parseTemperature(tempString))

\* calculateAgeRisk with the top band starting at 65
calculateAgeRisk_from65(ageValue) ==
  LET risk(isValid, age) ==
        IF ~isValid THEN AGE_INVALID
        ELSE IF NumGE(age, Int10(65)) THEN AGE_OVER_65
        ELSE IF NumGE(age, Int10(40)) THEN AGE_40_65
        ELSE AGE_UNDER_40
      ofParsed(p) == risk(p.isValid, p.age)
  IN  ofParsed(parseAge(ageValue))

calculateAgeRisk(ageValue) ==
  LET risk(isValid, age) ==
        IF ~isValid THEN AGE_INVALID
        ELSE IF NumGT(age, Int10(65)) THEN AGE_OVER_65
        ELSE IF NumGE(age, Int10(40)) THEN AGE_40_65
        ELSE AGE_UNDER_40
      ofParsed(p) == risk(p.isValid, p.age)
  IN  ofParsed(parseAge(ageValue))

calculateTotalRiskScore(patient) ==
  LET bpRisk == calculateBloodPressureRisk(patient.blood_pressure)
      tempRisk == calculateTemperatureRisk(patient.temperature)
      ageRisk == calculateAgeRisk(patient.age)
  IN  bpRisk + tempRisk + ageRisk

hasDataQualityIssues(patient) ==
  LET bpValid == parseBloodPressure(patient.blood_pressure).isValid
      tempValid == parseTemperature(patient.temperature).isValid
      ageValid == parseAge(patient.age).isValid
  IN  ~bpValid \/ ~tempValid \/ ~ageValid

hasFever(patient) ==
  LET fever(p) == p.isValid /\ NumGE(p.temperature, FEVER_TEMPERATURE)
  IN  fever(parseTemperature(patient.temperature))

\* isHighRisk never true for a record with a data-quality issue
isHighRisk_cleanOnly(patient) ==
  LET totalRisk == calculateTotalRiskScore(patient)
  IN  ~hasDataQualityIssues(patient) /\ totalRisk >= HIGH_RISK_SCORE

isHighRisk(patient) ==
  LET totalRisk == calculateTotalRiskScore(patient)
  IN  totalRisk >= HIGH_RISK_SCORE

----------------------------------------------------------------------------
(* risk-analyzer.js: RiskAnalyzer *)

\* UTF-16 code unit of the characters used in patient identifiers
CodeUnit(c) ==
  IF c \in Digits THEN 48 + DigitVal(c)
  ELSE CASE c = "A" -> 65 [] c = "B" -> 66 [] c = "P" -> 80

\* a < b in the order of Array.prototype.sort without a comparator:
\* strings compared code unit by code unit, a proper prefix first
RECURSIVE StrLess(_, _)
StrLess(a, b) ==
  IF b = <<>> THEN FALSE
  ELSE IF a = <<>> THEN TRUE
  ELSE IF CodeUnit(Head(a)) # CodeUnit(Head(b))
       THEN CodeUnit(Head(a)) < CodeUnit(Head(b))
       ELSE StrLess(Tail(a), Tail(b))

\* insert x after the elements that are not greater than it
RECURSIVE SortInsert(_, _)
SortInsert(sorted, x) ==
  IF sorted = <<>> THEN <<x>>
  ELSE IF StrLess(x, Head(sorted)) THEN <<x>> \o sorted
  ELSE <<Head(sorted)>> \o SortInsert(Tail(sorted), x)

\* sort leaving the array as it is
sort_asPushed(ids) == ids

\* Array.prototype.sort() on an array of strings
RECURSIVE sort(_)
sort(ids) ==
  IF ids = <<>> THEN <<>>
  ELSE SortInsert(sort(SubSeq(ids, 1, Len(ids) - 1)), ids[Len(ids)])

EmptyResults ==
  [highRiskPatients |-> <<>>, feverPatients |-> <<>>,
   dataQualityIssues |-> <<>>]

\* analyzePatient without the continue of the data-quality branch
analyzePatient_noContinue(res, patient) ==
  LET highRisk(r) ==
        IF isHighRisk(patient)
        THEN [r EXCEPT !.highRiskPatients = Append(@, patient.patient_id)]
        ELSE r
      fever(r) ==
        highRisk(IF hasFever(patient)
                 THEN [r EXCEPT !.feverPatients = Append(@, patient.patient_id)]
                 ELSE r)
  IN  fever(IF hasDataQualityIssues(patient)
            THEN [res EXCEPT
                    !.dataQualityIssues = Append(@, patient.patient_id)]
            ELSE res)

\* analyzePatient with the high-risk check skipped for a patient with fever
analyzePatient_elseIf(res, patient) ==
  IF hasDataQualityIssues(patient)
  THEN [res EXCEPT !.dataQualityIssues = Append(@, patient.patient_id)]
  ELSE IF hasFever(patient)
  THEN [res EXCEPT !.feverPatients = Append(@, patient.patient_id)]
  ELSE IF isHighRisk(patient)
  THEN [res EXCEPT !.highRiskPatients = Append(@, patient.patient_id)]
  ELSE res

\* one iteration of the loop of analyze
analyzePatient(res, patient) ==
  LET highRisk(r) ==
        IF isHighRisk(patient)
        THEN [r EXCEPT !.highRiskPatients = Append(@, patient.patient_id)]
        ELSE r
  IN  IF hasDataQualityIssues(patient)
      THEN [res EXCEPT !.dataQualityIssues = Append(@, patient.patient_id)]
      ELSE highRisk(IF hasFever(patient)
                    THEN [res EXCEPT
                            !.feverPatients = Append(@, patient.patient_id)]
                    ELSE res)

RECURSIVE analyzeLoop(_, _)
analyzeLoop(res, ps) ==
  IF ps = <<>> THEN res
  ELSE analyzeLoop(analyzePatient(res, Head(ps)), Tail(ps))

\* analyze without the reset of this.results
analyze_noReset(thisPatients, thisResults) ==
  LET sorted(r) ==
        [highRiskPatients |-> sort(r.highRiskPatients),
         feverPatients |-> sort(r.feverPatients),
         dataQualityIssues |-> sort(r.dataQualityIssues)]
  IN  sorted(analyzeLoop(thisResults, thisPatients))

\* analyze(): thisResults is this.results on entry, replaced before the loop
analyze(thisPatients, thisResults) ==
  LET sorted(r) ==
        [highRiskPatients |-> sort(r.highRiskPatients),
         feverPatients |-> sort(r.feverPatients),
         dataQualityIssues |-> sort(r.dataQualityIssues)]
  IN  sorted(analyzeLoop(EmptyResults, thisPatients))

\* addPatients(patients): an array is concatenated, anything else is pushed
addPatients(thisPatients, arg) ==
  IF arg.isArray THEN thisPatients \o arg.items
  ELSE Append(thisPatients, arg.item)

----------------------------------------------------------------------------
(* risk-analyzer.js: the breakdown of one patient and the summary *)

\* RiskAnalyzer.parseBloodPressure, the class's own copy of the parser
RiskAnalyzer_parseBloodPressure(bpString) ==
  LET ofNumbers(systolic, diastolic) ==
        IF \/ IsNaN(systolic) \/ IsNaN(diastolic)
           \/ NumLE(systolic, Int10(0)) \/ NumLE(diastolic, Int10(0))
        THEN InvalidBP
        ELSE [systolic |-> systolic, diastolic |-> diastolic,
              isValid |-> TRUE]
      ofParts(parts) ==
        IF Len(parts) # 2 THEN InvalidBP
        ELSE ofNumbers(ParseFloat(parts[1]), ParseFloat(parts[2]))
      ofTrimmed(trimmed) ==
        IF trimmed = <<>> \/ trimmed = StrNull \/ trimmed = StrUndefined
        THEN InvalidBP
        ELSE ofParts(Split(trimmed))
  IN  IF Falsy(bpString) \/ bpString.t # "string" THEN InvalidBP
      ELSE ofTrimmed(Trim(bpString.s))

\* RiskAnalyzer.parseTemperature
RiskAnalyzer_parseTemperature(tempValue) ==
  LET ofNumber(temperature) ==
        IF \/ IsNaN(temperature) \/ NumLE(temperature, Int10(0))
           \/ NumGT(temperature, Int10(120))
        THEN InvalidTemperature
        ELSE [temperature |-> temperature, isValid |-> TRUE]
      ofTrimmed(trimmed) ==
        IF trimmed = <<>> \/ trimmed = StrNull \/ trimmed = StrUndefined
        THEN InvalidTemperature
        ELSE ofNumber(ParseFloat(trimmed))
  IN  IF tempValue.t \in {"null", "undefined"} THEN InvalidTemperature
      ELSE IF tempValue.t = "number"
      THEN IF NumGT(tempValue, Int10(0)) /\ NumLE(tempValue, Int10(120))
           THEN [temperature |-> tempValue, isValid |-> TRUE]
           ELSE InvalidTemperature
      ELSE IF tempValue.t = "string" THEN ofTrimmed(Trim(tempValue.s))
      ELSE InvalidTemperature

\* RiskAnalyzer.parseAge
RiskAnalyzer_parseAge(ageValue) ==
  LET ofNumber(age) ==
        IF IsNaN(age) \/ NumLE(age, Int10(0)) \/ NumGT(age, Int10(150))
        THEN InvalidAge
        ELSE [age |-> age, isValid |-> TRUE]
      ofTrimmed(trimmed) ==
        IF trimmed = <<>> \/ trimmed = StrNull \/ trimmed = StrUndefined
        THEN InvalidAge
        ELSE ofNumber(ParseFloat(trimmed))
  IN  IF ageValue.t \in {"null", "undefined"} THEN InvalidAge
      ELSE IF ageValue.t = "number"
      THEN IF NumGT(ageValue, Int10(0)) /\ NumLE(ageValue, Int10(150))
           THEN [age |-> ageValue, isValid |-> TRUE]
           ELSE InvalidAge
      ELSE IF ageValue.t = "string" THEN ofTrimmed(Trim(ageValue.s))
      ELSE InvalidAge

\* getBloodPressureRisk with Stage 1 decided by the systolic value alone
getBloodPressureRisk_systolicOnly(bpString) ==
  LET breakdown(isValid, systolic, diastolic) ==
        IF ~isValid
        THEN [score |-> 0, category |-> "Invalid/Missing",
              systolic |-> systolic, diastolic |-> diastolic]
        ELSE IF NumGE(systolic, Int10(140)) \/ NumGE(diastolic, Int10(90))
        THEN [score |-> 4, category |-> "Stage 2",
              systolic |-> systolic, diastolic |-> diastolic]
        ELSE IF NumGE(systolic, Int10(130)) /\ NumLE(systolic, Int10(139))
        THEN [score |-> 3, category |-> "Stage 1",
              systolic |-> systolic, diastolic |-> diastolic]
        ELSE IF /\ NumGE(systolic, Int10(120)) /\ NumLE(systolic, Int10(129))
                /\ NumLT(diastolic, Int10(80))
        THEN [score |-> 2, category |-> "Elevated",
              systolic |-> systolic, diastolic |-> diastolic]
        ELSE [score |-> 1, category |-> "Normal",
              systolic |-> systolic, diastolic |-> diastolic]
      ofParsed(bp) == breakdown(bp.isValid, bp.systolic, bp.diastolic)
  IN  ofParsed(RiskAnalyzer_parseBloodPressure(bpString))

getBloodPressureRisk(bpString) ==
  LET breakdown(isValid, systolic, diastolic) ==
        IF ~isValid
        THEN [score |-> 0, category |-> "Invalid/Missing",
              systolic |-> systolic, diastolic |-> diastolic]
        ELSE IF NumGE(systolic, Int10(140)) \/ NumGE(diastolic, Int10(90))
        THEN [score |-> 4, category |-> "Stage 2",
              systolic |-> systolic, diastolic |-> diastolic]
        ELSE IF \/ NumGE(systolic, Int10(130)) /\ NumLE(systolic, Int10(139))
                \/ NumGE(diastolic, Int10(80)) /\ NumLE(diastolic, Int10(89))
        THEN [score |-> 3, category |-> "Stage 1",
              systolic |-> systolic, diastolic |-> diastolic]
        ELSE IF /\ NumGE(systolic, Int10(120)) /\ NumLE(systolic, Int10(129))
                /\ NumLT(diastolic, Int10(80))
        THEN [score |-> 2, category |-> "Elevated",
              systolic |-> systolic, diastolic |-> diastolic]
        ELSE [score |-> 1, category |-> "Normal",
              systolic |-> systolic, diastolic |-> diastolic]
      ofParsed(bp) == breakdown(bp.isValid, bp.systolic, bp.diastolic)
  IN  ofParsed(RiskAnalyzer_parseBloodPressure(bpString))

getTemperatureRisk(tempString) ==
  LET breakdown(isValid, temperature) ==
        IF ~isValid
        THEN [score |-> 0, category |-> "Invalid/Missing",
              temperature |-> temperature]
        ELSE IF NumGE(temperature, Int10(101))
        THEN [score |-> 2, category |-> "High Fever",
              temperature |-> temperature]
        ELSE IF NumGE(temperature, Num(996, 1))
        THEN [score |-> 1, category |-> "Low Fever",
              temperature |-> temperature]
        ELSE [score |-> 0, category |-> "Normal",
              temperature |-> temperature]
      ofParsed(p) == breakdown(p.isValid, p.temperature)
  IN  ofParsed(RiskAnalyzer_parseTemperature(tempString))

getAgeRisk(ageValue) ==
  LET breakdown(isValid, age) ==
        IF ~isValid
        THEN [score |-> 0, category |-> "Invalid/Missing", age |-> age]
        ELSE IF NumGT(age, Int10(65))
        THEN [score |-> 2, category |-> "Over 65", age |-> age]
        ELSE IF NumGE(age, Int10(40))
        THEN [score |-> 1, category |-> "40-65", age |-> age]
        ELSE [score |-> 1, category |-> "Under 40", age |-> age]
      ofParsed(p) == breakdown(p.isValid, p.age)
  IN  ofParsed(RiskAnalyzer_parseAge(ageValue))

\* getPatientAnalysis(patientId): the first patient with that identifier;
\* the records of the model carry no name
getPatientAnalysis(thisPatients, patientId) ==
  LET ofPatient(patient) ==
        [t |-> "object",
         patientId |-> patientId,
         name |-> Undefined,
         age |-> patient.age,
         bloodPressure |-> patient.blood_pressure,
         temperature |-> patient.temperature,
         totalRiskScore |-> calculateTotalRiskScore(patient),
         hasDataQualityIssues |-> hasDataQualityIssues(patient),
         hasFever |-> hasFever(patient),
         isHighRisk |-> isHighRisk(patient),
         riskBreakdown |->
           [bloodPressure |-> getBloodPressureRisk(patient.blood_pressure),
            temperature |-> getTemperatureRisk(patient.temperature),
            age |-> getAgeRisk(patient.age)]]
      find(matching) ==
        IF matching = {} THEN Null
        ELSE ofPatient(thisPatients[CHOOSE i \in matching :
                                      \A j \in matching : i <= j])
  IN  find({i \in 1..Len(thisPatients) :
              thisPatients[i].patient_id = patientId})

\* the decimal digits of a natural number
RECURSIVE Decimal(_)
Decimal(n) ==
  IF n < 10 THEN <<CHOOSE c \in Digits : DigitVal(c) = n>>
  ELSE Append(Decimal(n \div 10), CHOOSE c \in Digits : DigitVal(c) = n % 10)

\* (count / total * 100).toFixed(2): the quotient rounded to hundredths,
\* written with two decimals
toFixed2(count, total) ==
  LET ofHundredths(h) ==
        Str(Decimal(h \div 100) \o <<".">> \o Decimal((h % 100) \div 10)
              \o Decimal(h % 10))
  IN  ofHundredths((count * 20000 + total) \div (2 * total))

getSummary(thisPatients, thisResults) ==
  [totalPatients |-> Len(thisPatients),
   validPatients |->
     Cardinality({i \in 1..Len(thisPatients) :
                    ~hasDataQualityIssues(thisPatients[i])}),
   highRiskCount |-> Len(thisResults.highRiskPatients),
   feverCount |-> Len(thisResults.feverPatients),
   dataQualityCount |-> Len(thisResults.dataQualityIssues),
   dataQualityPercentage |->
     IF Len(thisPatients) > 0
     THEN toFixed2(Len(thisResults.dataQualityIssues), Len(thisPatients))
     ELSE Int10(0)]

----------------------------------------------------------------------------
(* Inputs of the model *)

Slash(sys, dia) == Str(sys \o <<"/">> \o dia)

SystolicTexts ==
  { <<"0">>, <<"9", "0">>, <<"1", "1", "9">>, <<"1", "1", "9", ".", "5">>,
    <<"1", "2", "0">>, <<"1", "2", "9">>, <<"1", "2", "9", ".", "5">>,
    <<"1", "3", "0">>, <<"1", "3", "9">>, <<"1", "3", "9", ".", "5">>,
    <<"1", "4", "0">>, <<"1", "5", "0">> }

DiastolicTexts ==
  { <<"0">>, <<"7", "0">>, <<"7", "9">>, <<"7", "9", ".", "5">>,
    <<"8", "0">>, <<"8", "9">>, <<"8", "9", ".", "5">>, <<"9", "0">>,
    <<"1", "0", "0">> }

MalformedBPValues ==
  { Null, Undefined, Num(120, 0), Str(<<>>), Str(<<" ">>), Str(StrNull),
    Str(StrUndefined), Str(<<"X">>), Str(<<"1", "5", "0", "/">>),
    Str(<<"/", "9", "0">>), Str(<<"1", "2", "0">>),
    Str(<<"1", "2", "0", "/", "8", "0", "/", "1">>),
    Str(<<"-", "1", "2", "0", "/", "8", "0">>),
    Str(<<"1", "2", "0", "/", "8", "0", "X">>),
    Str(<<"1", "2", "X", "/", "8", "0">>),
    Str(<<" ", "1", "2", "0", "/", " ", "8", "0", " ">>) }

BPValues ==
  {Slash(sys, dia) : sys \in SystolicTexts, dia \in DiastolicTexts}
    \cup MalformedBPValues

TemperatureValues ==
  { Str(<<"9", "8", ".", "6">>), Num(986, 1), Num(995, 1), Num(996, 1),
    Str(<<"1", "0", "0", ".", "0">>), Num(101, 0),
    Str(<<"1", "0", "2", ".", "5">>), Str(<<"X">>), Null, Num(121, 0),
    Num(1009, 1), Num(120, 0), Str(<<"1", "2", "0">>),
    Str(<<"1", "2", "1">>), Str(<<"0">>), Str(<<>>), Str(StrNull),
    Str(<<" ", "9", "9", ".", "6", " ">>),
    Str(<<"9", "8", ".", "6", "F">>) }

AgeValues ==
  { Num(25, 0), Num(45, 0), Num(65, 0), Num(70, 0), Str(<<"7", "0">>),
    Str(<<"X">>), Undefined, Num(0, 0),
    Num(40, 0), Num(150, 0), Num(151, 0), Str(<<"1", "5", "1">>),
    Str(StrUndefined), Str(<<"4", "5", "y">>) }

\* patient identifiers: "P10" sorts before "P2"
PatientIds == { <<"P", "1", "0">>, <<"P", "2">> }

Patient(id, bp, temp, age) ==
  [patient_id |-> id, blood_pressure |-> bp, temperature |-> temp,
   age |-> age]

BP_110_70 == Slash(<<"1", "1", "0">>, <<"7", "0">>)
BP_120_80 == Slash(<<"1", "2", "0">>, <<"8", "0">>)
BP_150_95 == Slash(<<"1", "5", "0">>, <<"9", "5">>)

\* vitals of the records given to the analyzer:
\*   clean and in no set; clean with fever only; clean and high risk only;
\*   clean with fever and high risk; invalid temperature with a total of 4;
\*   invalid blood pressure with a fever
Vitals ==
  { <<BP_110_70, Num(986, 1), Num(25, 0)>>,
    <<BP_110_70, Str(<<"1", "0", "0", ".", "0">>), Num(25, 0)>>,
    <<BP_120_80, Num(986, 1), Num(45, 0)>>,
    <<BP_150_95, Num(103, 0), Num(75, 0)>>,
    <<BP_120_80, Str(<<"X">>), Num(45, 0)>>,
    <<Str(<<"1", "5", "0", "/">>), Num(101, 0), Str(<<"7", "0">>)>> }

Records ==
  {Patient(id, v[1], v[2], v[3]) : id \in PatientIds, v \in Vitals}

RECURSIVE SeqsUpTo(_, _)
SeqsUpTo(S, n) ==
  IF n = 0 THEN {<<>>}
  ELSE LET shorter == SeqsUpTo(S, n - 1)
       IN  shorter \cup {Append(q, x) : q \in shorter, x \in S}

----------------------------------------------------------------------------
(* State *)

VARIABLES
  patients,    \* RiskAnalyzer.patients
  results,     \* RiskAnalyzer.results
  lastCall,    \* the RiskAnalyzer method called last, this.results before
               \* that call, and how many analyze calls ended in a row
  arg,         \* a patient record given to the functions of utils.js
  ret,         \* what the functions of utils.js return for arg
  pc,          \* where the run is suspended: idle, awaitFetch (fetch or
               \* response.json pending), sleepRateLimit, sleepBackoff,
               \* sleepInterPage
  runs,        \* runAssessment calls made on the HealthcareAssessment
  maxAttempts, \* CONFIG.RETRY_ATTEMPTS
  request,     \* the request makeRequest is working on
  attempt,     \* retryWithBackoff: attempt
  currentPage, \* getAllPatients: currentPage
  hasNext,     \* getAllPatients: hasNext
  allPatients, \* getAllPatients: allPatients
  fetched,     \* runAssessment: patients, once fetchAllPatients returned
  runResult,   \* how the last runAssessment ended
  steps,       \* the steps of runAssessment completed in this run
  fetchLog,    \* the requests handed to the transport in this run
  calls,       \* transport calls made for the current request
  failures,    \* failed attempts of the current request
  nonRetryable,\* failed attempts of the current request that were neither
               \* rate limited nor a server error
  lastError,   \* the error thrown by the last failed attempt
  backoffs,    \* the delays retryWithBackoff slept for the current request
  waits,       \* the sleeps made since the last answer of the transport
  served,      \* the bodies of the patient pages delivered in this run
  completed    \* the makeRequest call that ended last, as its caller saw it,
               \* until the next one starts

analyzerVars == <<patients, results, lastCall>>
pureVars == <<arg, ret>>
requestVars ==
  <<request, attempt, calls, failures, nonRetryable, lastError, backoffs>>
pageVars == <<currentPage, hasNext, allPatients, served>>
runVars == <<runs, fetched, runResult, steps>>
clientVars ==
  <<pc, maxAttempts, requestVars, pageVars, runVars, fetchLog, waits,
    completed>>
vars == <<analyzerVars, pureVars, clientVars>>

NotCalled == [called |-> FALSE]

NoRequest == [kind |-> "none"]
NoError == [kind |-> "none", cause |-> "none"]
NotFetched == [returned |-> FALSE, items |-> <<>>]
NotCompleted == [done |-> FALSE]

\* the state of a HealthcareAssessment after construction, no run started
InitClient ==
  /\ pc = "idle"
  /\ runs = 0
  /\ request = NoRequest
  /\ attempt = 0
  /\ currentPage = 1
  /\ hasNext = TRUE
  /\ allPatients = <<>>
  /\ fetched = NotFetched
  /\ runResult = [state |-> "none", error |-> NoError]
  /\ steps = <<>>
  /\ fetchLog = <<>>
  /\ calls = 0
  /\ failures = 0
  /\ nonRetryable = 0
  /\ lastError = NoError
  /\ backoffs = <<>>
  /\ waits = <<>>
  /\ served = <<>>
  /\ completed = NotCompleted

----------------------------------------------------------------------------
(* The functions of utils.js applied to one record *)

InitPure ==
  /\ arg \in {Patient(<<"P", "2">>, bp, temp, age) :
                bp \in BPValues, temp \in TemperatureValues,
                age \in AgeValues}
  /\ ret = NotCalled
  /\ patients = <<>>
  /\ results = EmptyResults
  /\ lastCall = [method |-> "none", before |-> EmptyResults, streak |-> 0]
  /\ maxAttempts = RETRY_ATTEMPTS
  /\ InitClient

Evaluate ==
  /\ ret = NotCalled
  /\ ret' = [called |-> TRUE,
             bp |-> parseBloodPressure(arg.blood_pressure),
             temperature |-> parseTemperature(arg.temperature),
             age |-> parseAge(arg.age),
             bpRisk |-> calculateBloodPressureRisk(arg.blood_pressure),
             tempRisk |-> calculateTemperatureRisk(arg.temperature),
             ageRisk |-> calculateAgeRisk(arg.age),
             total |-> calculateTotalRiskScore(arg),
             dataQuality |-> hasDataQualityIssues(arg),
             fever |-> hasFever(arg),
             highRisk |-> isHighRisk(arg),
             analysis |-> getPatientAnalysis(<<arg>>, arg.patient_id)]
  /\ UNCHANGED <<arg, analyzerVars, clientVars>>

NextPure == Evaluate

SpecPure == InitPure /\ [][NextPure]_vars

----------------------------------------------------------------------------
(* RiskAnalyzer driven through its public methods *)

InitAnalyzer ==
  /\ patients = <<>>
  /\ results = EmptyResults
  /\ lastCall = [method |-> "none", before |-> EmptyResults, streak |-> 0]
  /\ arg = Patient(<<"P", "2">>, Null, Null, Null)
  /\ ret = NotCalled
  /\ maxAttempts = RETRY_ATTEMPTS
  /\ InitClient

AddPatients ==
  \E a \in {[isArray |-> TRUE, items |-> q] : q \in SeqsUpTo(Records, 2)}
          \cup {[isArray |-> FALSE, item |-> r] : r \in Records} :
    /\ Len(addPatients(patients, a)) <= MaxPatients
    /\ patients' = addPatients(patients, a)
    /\ lastCall' = [method |-> "addPatients", before |-> results, streak |-> 0]
    /\ ret' = NotCalled
    /\ UNCHANGED <<results, arg, clientVars>>

Analyze ==
  /\ results' = analyze(patients, results)
  /\ lastCall' = [method |-> "analyze", before |-> results,
                  streak |-> IF lastCall.streak = 0 THEN 1 ELSE 2]
  /\ ret' = NotCalled
  /\ UNCHANGED <<patients, arg, clientVars>>

Clear ==
  /\ patients' = <<>>
  /\ results' = EmptyResults
  /\ lastCall' = [method |-> "clear", before |-> results, streak |-> 0]
  /\ ret' = NotCalled
  /\ UNCHANGED <<arg, clientVars>>

\* getSummary() reads the analyzer and changes nothing; ret holds what it
\* returned until the next call of another method
GetSummary ==
  /\ ret = NotCalled
  /\ ret' = [called |-> TRUE, summary |-> getSummary(patients, results)]
  /\ UNCHANGED <<analyzerVars, arg, clientVars>>

NextAnalyzer == AddPatients \/ Analyze \/ Clear \/ GetSummary

SpecAnalyzer == InitAnalyzer /\ [][NextAnalyzer]_vars

----------------------------------------------------------------------------
(* The transport: what fetch and response.json can do *)

MAX_LIMIT == 20

\* fetch rejects (network failure), or resolves with a status; a 2xx body
\* parses or not
Outcomes ==
  { [threw |-> TRUE, status |-> 0, parses |-> FALSE],
    [threw |-> FALSE, status |-> 200, parses |-> TRUE],
    [threw |-> FALSE, status |-> 200, parses |-> FALSE],
    [threw |-> FALSE, status |-> 404, parses |-> TRUE],
    [threw |-> FALSE, status |-> 429, parses |-> TRUE],
    [threw |-> FALSE, status |-> 503, parses |-> TRUE] }

PageA == <<Patient(<<"P", "2">>, BP_150_95, Num(103, 0), Num(75, 0))>>
PageB == <<Patient(<<"P", "1", "0">>, BP_120_80, Str(<<"X">>), Num(45, 0))>>

\* bodies of the fetch endpoint: data is an array or is missing, pagination
\* is missing or reports hasNext
Bodies ==
  {[hasData |-> TRUE, data |-> d, pagination |-> p] :
     d \in {<<>>, PageA, PageB}, p \in {"none", "next", "last"}}
  \cup {[hasData |-> FALSE, data |-> <<>>, pagination |-> "last"]}

SubmitBody == [results |-> "scored"]

PatientsRequest(page, limit) ==
  [kind |-> "patients", page |-> page,
   limit |-> IF limit < MAX_LIMIT THEN limit ELSE MAX_LIMIT]

----------------------------------------------------------------------------
(* utils.js: retryWithBackoff; api-client.js: ApiClient *)

RECURSIVE Pow2(_)
Pow2(k) == IF k = 0 THEN 1 ELSE 2 * Pow2(k - 1)

\* backoffDelay without growth
backoffDelay_constant(baseDelay, n) == baseDelay

\* backoffDelay one doubling ahead
backoffDelay_doubled(baseDelay, n) == baseDelay * Pow2(n)

\* retryWithBackoff: the wait after a failed attempt
backoffDelay(baseDelay, n) == baseDelay * Pow2(n - 1)

\* sleep(ms), with the place that called it
Sleep(kind, ms) == [kind |-> kind, ms |-> ms]

\* makeRequest: the sleep after a 429
rateLimitSleep == Sleep("rateLimit", RATE_LIMIT_DELAY)

\* retryWithBackoff: the sleep after failed attempt n
backoffSleep(n) == Sleep("backoff", backoffDelay(RETRY_DELAY, n))

\* interPageSleeps sleeping after the last page as well
interPageSleeps_always(more) == <<Sleep("interPage", INTER_PAGE_DELAY)>>

\* getAllPatients: the sleep after a page, made only when a next page is
\* reported
interPageSleeps(more) ==
  IF more THEN <<Sleep("interPage", INTER_PAGE_DELAY)>> ELSE <<>>

\* isLastAttempt giving up one attempt early
isLastAttempt_early(n, max) == n >= max - 1

\* retryWithBackoff: the test that ends the loop with the error
isLastAttempt(n, max) == n = max

\* the classes of error the client means to retry
Retryable(error) == error.kind \in {"RateLimited", "ServerError"}

\* attemptResult throwing on a 429 without the sleep
attemptResult_noSleep(o) ==
  IF o.threw
  THEN [do |-> "throw",
        error |-> [kind |-> "RequestFailed", cause |-> "network"]]
  ELSE IF o.status = 429
  THEN [do |-> "throw",
        error |-> [kind |-> "RateLimited", cause |-> "429"]]
  ELSE IF o.status >= 500
  THEN [do |-> "throw",
        error |-> [kind |-> "ServerError", cause |-> "5xx"]]
  ELSE IF ~(o.status >= 200 /\ o.status <= 299)
  THEN [do |-> "throw",
        error |-> [kind |-> "RequestFailed", cause |-> "http"]]
  ELSE IF ~o.parses
  THEN [do |-> "throw",
        error |-> [kind |-> "RequestFailed", cause |-> "json"]]
  ELSE [do |-> "return", error |-> NoError]

\* makeRequest: the function given to retryWithBackoff, from the answer of
\* the transport to what it does: sleep RATE_LIMIT_DELAY and throw, throw,
\* or return the parsed body
attemptResult(o) ==
  IF o.threw
  THEN [do |-> "throw",
        error |-> [kind |-> "RequestFailed", cause |-> "network"]]
  ELSE IF o.status = 429
  THEN [do |-> "sleepThrow",
        error |-> [kind |-> "RateLimited", cause |-> "429"]]
  ELSE IF o.status >= 500
  THEN [do |-> "throw",
        error |-> [kind |-> "ServerError", cause |-> "5xx"]]
  ELSE IF ~(o.status >= 200 /\ o.status <= 299)
  THEN [do |-> "throw",
        error |-> [kind |-> "RequestFailed", cause |-> "http"]]
  ELSE IF ~o.parses
  THEN [do |-> "throw",
        error |-> [kind |-> "RequestFailed", cause |-> "json"]]
  ELSE [do |-> "return", error |-> NoError]

\* concatPage putting the new page in front
concatPage_prepend(all, response) ==
  IF response.hasData THEN response.data \o all ELSE all

\* getAllPatients: the accumulator after a page
concatPage(all, response) ==
  IF response.hasData THEN all \o response.data ELSE all

\* getAllPatients: hasNext after a page
\* nextHasNext going on whenever the response has a pagination object
nextHasNext_paginated(response) == response.pagination # "none"

nextHasNext(response) ==
  IF response.pagination # "none" THEN response.pagination = "next"
  ELSE FALSE

\* getAllPatients: currentPage after a page
nextPage(page, response) ==
  IF response.pagination # "none" THEN page + 1 ELSE page

\* submitAssessment: the payload
submitPayload(res) ==
  [high_risk_patients |-> res.highRiskPatients,
   fever_patients |-> res.feverPatients,
   data_quality_issues |-> res.dataQualityIssues]

SubmitRequest(res) == [kind |-> "submit", payload |-> submitPayload(res)]

\* noPatients letting an empty fetch through
noPatients_never(items) == FALSE

\* runAssessment: the test for an empty fetch
noPatients(items) == Len(items) = 0

\* makeRequest: retryWithBackoff starts its loop and the first attempt calls
\* fetch
BeginRequest(req, log) ==
  /\ request' = req
  /\ attempt' = 1
  /\ calls' = 1
  /\ failures' = 0
  /\ nonRetryable' = 0
  /\ lastError' = NoError
  /\ backoffs' = <<>>
  /\ fetchLog' = Append(log, req)
  /\ completed' = NotCompleted
  /\ pc' = "awaitFetch"

\* runAssessment: the catch that reports the error and throws it again
RunThrows(error) ==
  /\ pc' = "idle"
  /\ runResult' = [state |-> "thrown", error |-> error]

\* getAllPatientsCatch returning the pages fetched so far
getAllPatientsCatch_partial(error) ==
  /\ pc' = "idle"
  /\ runResult' = [state |-> "returned", error |-> NoError]
  /\ fetched' = [returned |-> TRUE, items |-> allPatients]
  /\ UNCHANGED <<runs, steps>>

\* getAllPatients: the catch around a page, then the catch of
\* fetchAllPatients; both throw the error again
getAllPatientsCatch(error) ==
  /\ RunThrows(error)
  /\ UNCHANGED <<runs, fetched, steps>>

\* submitResults: the catch throws the error again
submitResultsCatch(error) ==
  /\ RunThrows(error)
  /\ UNCHANGED <<runs, fetched, steps>>

\* makeRequest rejects
RequestRejected(error) ==
  /\ completed' = [done |-> TRUE, request |-> request, calls |-> calls,
                   failures |-> failures', nonRetryable |-> nonRetryable',
                   outcome |-> "rejected", value |-> error]
  /\ IF request.kind = "patients"
     THEN getAllPatientsCatch(error)
     ELSE submitResultsCatch(error)

\* retryWithBackoff: the catch of an attempt; slept are the sleeps the
\* attempt made before it threw
AttemptFailed(error, slept) ==
  /\ lastError' = error
  /\ failures' = failures + 1
  /\ nonRetryable' = nonRetryable + (IF Retryable(error) THEN 0 ELSE 1)
  /\ IF isLastAttempt(attempt, maxAttempts)
     THEN /\ waits' = slept
          /\ backoffs' = backoffs
          /\ RequestRejected(error)
     ELSE /\ waits' = Append(slept, backoffSleep(attempt))
          /\ backoffs' = Append(backoffs, backoffDelay(RETRY_DELAY, attempt))
          /\ pc' = "sleepBackoff"
          /\ UNCHANGED <<runVars, completed>>
  /\ UNCHANGED <<request, attempt, calls, fetchLog, pageVars, analyzerVars>>

\* runAssessment after fetchAllPatients returned: the empty check,
\* analyzePatients (addPatients, analyze, getSummary), then submitResults
\* up to its fetch; response is the body of the last page
PatientsFetched(items, response) ==
  /\ fetched' = [returned |-> TRUE, items |-> items]
  /\ IF noPatients(items)
     THEN /\ RunThrows([kind |-> "NoPatients", cause |-> "none"])
          /\ steps' = <<"fetch">>
          /\ completed' = [done |-> TRUE, request |-> request,
                           calls |-> calls, failures |-> failures,
                           nonRetryable |-> nonRetryable,
                           outcome |-> "resolved", value |-> response]
          /\ UNCHANGED <<runs, requestVars, fetchLog, analyzerVars>>
     ELSE /\ patients' = addPatients(patients,
                                     [isArray |-> TRUE, items |-> items])
          /\ results' = analyze(patients', results)
          /\ lastCall' = [method |-> "analyze", before |-> results,
                          streak |-> 1]
          /\ steps' = <<"fetch", "analyze">>
          /\ BeginRequest(SubmitRequest(results'), fetchLog)
          /\ UNCHANGED <<runs, runResult>>

\* getAllPatients: the body of the loop after getPatients returned
PageReceived(response) ==
  /\ served' = Append(served, response)
  /\ allPatients' = concatPage(allPatients, response)
  /\ hasNext' = nextHasNext(response)
  /\ currentPage' = nextPage(currentPage, response)
  /\ waits' = interPageSleeps(hasNext')
  /\ IF hasNext'
     THEN /\ pc' = "sleepInterPage"
          /\ completed' = [done |-> TRUE, request |-> request,
                           calls |-> calls, failures |-> failures,
                           nonRetryable |-> nonRetryable,
                           outcome |-> "resolved", value |-> response]
          /\ UNCHANGED <<requestVars, fetchLog, runVars, analyzerVars>>
     ELSE PatientsFetched(allPatients', response)

\* submitResults returned: displayResults, then runAssessment returns
SubmitAccepted(response) ==
  /\ completed' = [done |-> TRUE, request |-> request, calls |-> calls,
                   failures |-> failures, nonRetryable |-> nonRetryable,
                   outcome |-> "resolved", value |-> response]
  /\ steps' = Append(steps, "submit")
  /\ runResult' = [state |-> "returned", error |-> NoError]
  /\ pc' = "idle"
  /\ waits' = <<>>
  /\ UNCHANGED <<runs, fetched, requestVars, fetchLog, pageVars,
                 analyzerVars>>

----------------------------------------------------------------------------
(* The steps of a HealthcareAssessment and its transport *)

\* runAssessment is called, for at most maxRuns calls on the instance; it
\* runs up to the fetch of page 1
StartRun(maxRuns) ==
  /\ pc = "idle"
  /\ runs < maxRuns
  /\ runs' = runs + 1
  /\ fetched' = NotFetched
  /\ runResult' = [state |-> "running", error |-> NoError]
  /\ steps' = <<>>
  /\ currentPage' = 1
  /\ hasNext' = TRUE
  /\ allPatients' = <<>>
  /\ served' = <<>>
  /\ waits' = <<>>
  /\ BeginRequest(PatientsRequest(1, MAX_LIMIT), <<>>)
  /\ UNCHANGED <<analyzerVars, pureVars, maxAttempts>>

\* the transport answers the pending fetch; the fetch endpoint holds at most
\* maxPages pages
TransportAnswers(maxPages) ==
  /\ pc = "awaitFetch"
  /\ \E o \in Outcomes :
       LET r == attemptResult(o) IN
       CASE r.do = "sleepThrow" ->
              /\ pc' = "sleepRateLimit"
              /\ waits' = <<rateLimitSleep>>
              /\ UNCHANGED <<requestVars, fetchLog, pageVars, runVars,
                             completed, analyzerVars>>
         [] r.do = "throw" -> AttemptFailed(r.error, <<>>)
         [] r.do = "return" /\ request.kind = "patients" ->
              \E body \in Bodies :
                /\ body.pagination = "next" => currentPage < maxPages
                /\ PageReceived(body)
         [] r.do = "return" /\ request.kind = "submit" ->
              SubmitAccepted(SubmitBody)
  /\ UNCHANGED <<pureVars, maxAttempts>>

\* the sleep after a 429 ends and the attempt throws 'Rate limited'
RateLimitSleepDone ==
  /\ pc = "sleepRateLimit"
  /\ AttemptFailed([kind |-> "RateLimited", cause |-> "429"], waits)
  /\ UNCHANGED <<pureVars, maxAttempts>>

\* the backoff sleep ends and the next attempt calls fetch
BackoffSleepDone ==
  /\ pc = "sleepBackoff"
  /\ attempt' = attempt + 1
  /\ calls' = calls + 1
  /\ fetchLog' = Append(fetchLog, request)
  /\ pc' = "awaitFetch"
  /\ UNCHANGED <<request, failures, nonRetryable, lastError, backoffs,
                 waits, pageVars, runVars, completed, analyzerVars, pureVars,
                 maxAttempts>>

\* the sleep between two pages ends and the next page is requested
InterPageSleepDone ==
  /\ pc = "sleepInterPage"
  /\ BeginRequest(PatientsRequest(currentPage, MAX_LIMIT), fetchLog)
  /\ UNCHANGED <<waits, pageVars, runVars, analyzerVars, pureVars,
                 maxAttempts>>

----------------------------------------------------------------------------
(* main(): one HealthcareAssessment, one runAssessment, any retry budget *)

Init ==
  /\ patients = <<>>
  /\ results = EmptyResults
  /\ lastCall = [method |-> "none", before |-> EmptyResults, streak |-> 0]
  /\ arg = Patient(<<"P", "2">>, Null, Null, Null)
  /\ ret = NotCalled
  /\ maxAttempts \in 1..MaxAttempts
  /\ InitClient

RunAssessment == StartRun(1)

FetchResolves == TransportAnswers(MaxPages)

Next ==
  \/ RunAssessment
  \/ FetchResolves
  \/ RateLimitSleepDone
  \/ BackoffSleepDone
  \/ InterPageSleepDone

Spec == Init /\ [][Next]_vars

\* the transport answers every request it is handed (fetch settles and
\* response.json settles), and every timer set by sleep fires
Fairness ==
  /\ WF_vars(FetchResolves)
  /\ WF_vars(RateLimitSleepDone)
  /\ WF_vars(BackoffSleepDone)
  /\ WF_vars(InterPageSleepDone)

\* main() with the retry budget of config.js
InitLive ==
  /\ patients = <<>>
  /\ results = EmptyResults
  /\ lastCall = [method |-> "none", before |-> EmptyResults, streak |-> 0]
  /\ arg = Patient(<<"P", "2">>, Null, Null, Null)
  /\ ret = NotCalled
  /\ maxAttempts = RETRY_ATTEMPTS
  /\ InitClient

SpecLive == InitLive /\ [][Next]_vars /\ Fairness

----------------------------------------------------------------------------
(* One HealthcareAssessment whose runAssessment is called again after it   *)
(* ended, against a fetch endpoint of one page, with the configured        *)
(* retry budget                                                            *)

InitRerun ==
  /\ patients = <<>>
  /\ results = EmptyResults
  /\ lastCall = [method |-> "none", before |-> EmptyResults, streak |-> 0]
  /\ arg = Patient(<<"P", "2">>, Null, Null, Null)
  /\ ret = NotCalled
  /\ maxAttempts = RETRY_ATTEMPTS
  /\ InitClient

RunAssessmentAgain == StartRun(MaxRuns)

FetchResolvesOnePage == TransportAnswers(1)

NextRerun ==
  \/ RunAssessmentAgain
  \/ FetchResolvesOnePage
  \/ RateLimitSleepDone
  \/ BackoffSleepDone

SpecRerun == InitRerun /\ [][NextRerun]_vars

----------------------------------------------------------------------------
(* Properties of the client *)

PatientCalls == SelectSeq(fetchLog, LAMBDA r : r.kind = "patients")
SubmitIssued == \E i \in DOMAIN fetchLog : fetchLog[i].kind = "submit"

RECURSIVE ConcatData(_)
ConcatData(bodies) ==
  IF bodies = <<>> THEN <<>>
  ELSE Head(bodies).data \o ConcatData(Tail(bodies))

\* C1: a request whose attempts all failed with a rate limit or a server
\* error is rejected only after exactly maxAttempts transport calls, with
\* the error of the last attempt; a request is resolved with the body of
\* the first successful attempt, which may be the last allowed one.
C1_RetryBudget ==
  completed.done =>
    /\ (completed.outcome = "rejected" /\ completed.nonRetryable = 0) =>
         /\ completed.calls = maxAttempts
         /\ completed.failures = maxAttempts
         /\ completed.value = lastError
         /\ runResult = [state |-> "thrown", error |-> lastError]
    /\ completed.outcome = "resolved" =>
         /\ completed.calls = completed.failures + 1
         /\ completed.calls <= maxAttempts
         /\ completed.value \in Bodies \cup {SubmitBody}

\* every one of the three configured attempts failed retryably, the last
\* one with a server error, and the request was rejected
C1_Witness ==
  /\ completed.done
  /\ completed.outcome = "rejected"
  /\ completed.nonRetryable = 0
  /\ maxAttempts = RETRY_ATTEMPTS
  /\ completed.calls = RETRY_ATTEMPTS
  /\ completed.value.kind = "ServerError"
  /\ waits = <<>>

\* C2: once an attempt of the current request has failed with an error that
\* is neither a rate limit nor a server error, the request has been rejected
\* with that error, without any wait and without another transport call.
C2_OnlyRetryableRetried ==
  nonRetryable > 0 =>
    /\ pc = "idle"
    /\ runResult = [state |-> "thrown", error |-> lastError]
    /\ waits = <<>>
    /\ calls = failures
    /\ nonRetryable = 1

\* the transport served every request at once, each page but the last
\* reporting a next page, the last reporting none
ServedWithoutFailure ==
  /\ fetched.returned
  /\ Len(PatientCalls) = Len(served)
  /\ \A i \in DOMAIN served :
       /\ served[i].hasData
       /\ served[i].pagination = IF i < Len(served) THEN "next" ELSE "last"

\* C3: when the transport serves N pages without failure, getAllPatients
\* requests pages 1..N in order, each once, and returns the concatenation
\* of their data arrays in page order.
C3_PagesInOrder ==
  ServedWithoutFailure =>
    /\ \A i \in DOMAIN PatientCalls :
         PatientCalls[i] = [kind |-> "patients", page |-> i,
                            limit |-> MAX_LIMIT]
    /\ fetched.items = ConcatData(served)

\* two pages with different records were served and returned
C3_Witness ==
  /\ ServedWithoutFailure
  /\ Len(served) = 2
  /\ served[1].data = PageA
  /\ served[2].data = PageB

PageFetchFailed ==
  /\ completed.done
  /\ completed.outcome = "rejected"
  /\ completed.request.kind = "patients"

\* C4: when the fetch of page k is rejected, runAssessment ends with that
\* error, page k is the last request made, and the caller of getAllPatients
\* holds no record: nothing was returned and nothing was analysed.
C4_AllOrNothing ==
  PageFetchFailed =>
    /\ pc = "idle"
    /\ runResult = [state |-> "thrown", error |-> completed.value]
    /\ fetched = NotFetched
    /\ steps = <<>>
    /\ fetchLog[Len(fetchLog)] = completed.request
    /\ \A i \in DOMAIN fetchLog :
         /\ fetchLog[i].kind = "patients"
         /\ fetchLog[i].page <= completed.request.page

\* page 1 delivered records and the fetch of page 2 was rejected
C4_Witness ==
  /\ PageFetchFailed
  /\ completed.request.page = 2
  /\ served = <<[hasData |-> TRUE, data |-> PageA, pagination |-> "next"]>>
  /\ allPatients = PageA

\* C5: a submit request is made only after getAllPatients returned at least
\* one record and analyze ran on it; a fetch that fails or returns no record
\* ends the run with an error and without a submit request.
C5_SubmitAfterAnalysis ==
  /\ SubmitIssued =>
       /\ fetched.returned
       /\ Len(fetched.items) >= 1
       /\ SubSeq(steps, 1, 2) = <<"fetch", "analyze">>
       /\ lastCall.method = "analyze"
       /\ fetchLog[Len(fetchLog)] = SubmitRequest(results)
  /\ (fetched.returned /\ Len(fetched.items) = 0) =>
       /\ pc = "idle"
       /\ runResult.state = "thrown"
       /\ ~SubmitIssued
  /\ PageFetchFailed => (runResult.state = "thrown" /\ ~SubmitIssued)

\* the fetch returned no record and the run ended with the error
C5_Witness ==
  /\ fetched.returned
  /\ fetched.items = <<>>
  /\ Len(served) = 2
  /\ runResult =
       [state |-> "thrown", error |-> [kind |-> "NoPatients", cause |-> "none"]]
  /\ ~SubmitIssued

----------------------------------------------------------------------------
(* Properties of the batch analyzer *)

Count(seq, x) == Cardinality({i \in DOMAIN seq : seq[i] = x})
Contains(seq, x) == \E i \in DOMAIN seq : seq[i] = x

FailsParsing(p) ==
  \/ ~parseBloodPressure(p.blood_pressure).isValid
  \/ ~parseTemperature(p.temperature).isValid
  \/ ~parseAge(p.age).isValid

CleanFever(p) == ~FailsParsing(p) /\ hasFever(p)
CleanHighRisk(p) == ~FailsParsing(p) /\ isHighRisk(p)

\* the positions of the records of this.patients that carry an identifier
RecordsOf(id) == {i \in DOMAIN patients : patients[i].patient_id = id}

Analyzed == lastCall.method = "analyze"

\* C6: after analyze every record with a field that fails parsing adds its
\* identifier to the data-quality-issue set and to no other set; every other
\* record adds its identifier to the fever set iff hasFever and to the
\* high-risk set iff isHighRisk.  So each set holds an identifier once per
\* record of that kind, and holds nothing else.
C6_QualityIssueExcludes ==
  Analyzed =>
    \A id \in PatientIds :
      /\ Count(results.dataQualityIssues, id) =
           Cardinality({i \in RecordsOf(id) : FailsParsing(patients[i])})
      /\ Count(results.feverPatients, id) =
           Cardinality({i \in RecordsOf(id) : CleanFever(patients[i])})
      /\ Count(results.highRiskPatients, id) =
           Cardinality({i \in RecordsOf(id) : CleanHighRisk(patients[i])})

\* a record with a data-quality issue that is high risk, one with a fever,
\* and a clean record in both other sets have been analysed
C6_Witness ==
  /\ Analyzed
  /\ \E i \in DOMAIN patients :
       FailsParsing(patients[i]) /\ isHighRisk(patients[i])
  /\ \E i \in DOMAIN patients :
       FailsParsing(patients[i]) /\ hasFever(patients[i])
  /\ \E i \in DOMAIN patients :
       CleanFever(patients[i]) /\ CleanHighRisk(patients[i])

\* C7 as stated: after analyze an identifier appears in at most one of the
\* three result sets.
C7_AtMostOneSet ==
  Analyzed =>
    \A id \in PatientIds :
      /\ ~(Contains(results.highRiskPatients, id)
             /\ Contains(results.feverPatients, id))
      /\ ~(Contains(results.highRiskPatients, id)
             /\ Contains(results.dataQualityIssues, id))
      /\ ~(Contains(results.feverPatients, id)
             /\ Contains(results.dataQualityIssues, id))

\* C7 amended: after analyze an identifier that is in the data-quality-issue
\* set and also in the fever or the high-risk set is carried by at least two
\* records; an identifier carried by one record is in the data-quality-issue
\* set alone or in any of the fever and high-risk sets.
C7_QualityIssueExclusive ==
  Analyzed =>
    \A id \in PatientIds :
      (/\ Contains(results.dataQualityIssues, id)
       /\ \/ Contains(results.feverPatients, id)
          \/ Contains(results.highRiskPatients, id))
        => Cardinality(RecordsOf(id)) >= 2

\* one record, and its identifier in the fever and in the high-risk set
C7_Witness ==
  /\ Analyzed
  /\ Len(patients) = 1
  /\ Contains(results.feverPatients, patients[1].patient_id)
  /\ Contains(results.highRiskPatients, patients[1].patient_id)

NoDuplicates(seq) == \A i, j \in DOMAIN seq : seq[i] = seq[j] => i = j

\* C8: after any sequence of addPatients and analyze calls no result set
\* holds an identifier twice, also when several records carry one identifier.
C8_NoDuplicateIds ==
  /\ NoDuplicates(results.highRiskPatients)
  /\ NoDuplicates(results.feverPatients)
  /\ NoDuplicates(results.dataQualityIssues)

\* C9: an analyze call that directly follows an analyze call leaves the
\* three result sets as they were, element by element.
C9_AnalyzeIdempotent ==
  [][(lastCall.method = "analyze" /\ lastCall'.method = "analyze"
        /\ patients' = patients)
       => results' = results]_vars

\* analyze ran twice in a row on a sequence that fills every set
C9_Witness ==
  /\ lastCall.method = "analyze"
  /\ lastCall.streak = 2
  /\ results.highRiskPatients # <<>>
  /\ results.feverPatients # <<>>
  /\ results.dataQualityIssues # <<>>

----------------------------------------------------------------------------
(* Properties of the risk rubric *)

InRange(x, lo, hi) == NumGE(x, Int10(lo)) /\ NumLE(x, Int10(hi))

\* the bands of the rubric, first match in descending severity
BloodPressureBand(systolic, diastolic) ==
  IF NumGE(systolic, Int10(140)) \/ NumGE(diastolic, Int10(90)) THEN 4
  ELSE IF InRange(systolic, 130, 139) \/ InRange(diastolic, 80, 89) THEN 3
  ELSE IF InRange(systolic, 120, 129) /\ NumLT(diastolic, Int10(80)) THEN 2
  ELSE 1

\* C10: a valid reading scores the first matching band (4, 3, 2, else 1) and
\* an invalid reading scores 0; "120/80" scores 3; a valid reading with
\* systolic < 120 and diastolic < 80 scores 1.
C10_BloodPressureBands ==
  ret.called =>
    LET bp == parseBloodPressure(arg.blood_pressure) IN
    /\ ~bp.isValid => ret.bpRisk = 0
    /\ bp.isValid => ret.bpRisk = BloodPressureBand(bp.systolic, bp.diastolic)
    /\ arg.blood_pressure = BP_120_80 => ret.bpRisk = 3
    /\ (/\ bp.isValid
        /\ NumLT(bp.systolic, Int10(120))
        /\ NumLT(bp.diastolic, Int10(80))) => ret.bpRisk = 1

\* "120/80" has been scored 3
C10_Witness ==
  /\ ret.called
  /\ arg.blood_pressure = BP_120_80
  /\ ret.bpRisk = 3

\* the temperature bands of the rubric on a valid reading
TemperatureBand(t) ==
  IF NumGE(t, Int10(101)) THEN 2
  ELSE IF NumGE(t, Num(996, 1)) THEN 1
  ELSE 0

\* C11: the temperature score is 2 for a valid reading >= 101, 1 for a valid
\* reading >= 99.6 and < 101, and 0 otherwise (valid below 99.6, or
\* invalid); hasFever holds exactly when that score is at least 1, whatever
\* the blood-pressure and age fields are.
C11_TemperatureBands ==
  ret.called =>
    /\ ret.temperature.isValid =>
         ret.tempRisk = TemperatureBand(ret.temperature.temperature)
    /\ ~ret.temperature.isValid => ret.tempRisk = 0
    /\ ret.fever = (ret.tempRisk >= 1)

\* a reading of exactly 99.6 scored 1 and is a fever on a record whose blood
\* pressure and age are both invalid
C11_Witness ==
  /\ ret.called
  /\ arg.temperature = Num(996, 1)
  /\ ~ret.bp.isValid
  /\ ~ret.age.isValid
  /\ ret.tempRisk = 1
  /\ ret.fever

\* C12: the age score is 2 for a valid age > 65, 1 for a valid age <= 65
\* (under 40 and 40 to 65 alike), and 0 exactly when the age is invalid.
C12_AgeBands ==
  ret.called =>
    /\ (ret.age.isValid /\ NumGT(ret.age.age, Int10(65))) => ret.ageRisk = 2
    /\ (ret.age.isValid /\ NumLE(ret.age.age, Int10(65))) => ret.ageRisk = 1
    /\ (ret.ageRisk = 0) = ~ret.age.isValid

\* the age 65 scored 1
C12_Witness ==
  /\ ret.called
  /\ arg.age = Num(65, 0)
  /\ ret.ageRisk = 1

\* the record of the claim: invalid temperature, "120/80", age 45
InvalidTemperatureRecord ==
  Patient(<<"P", "2">>, BP_120_80, Str(<<"X">>), Num(45, 0))

\* C13: the total is the sum of the three factor scores, an invalid field
\* contributing 0, and isHighRisk is true iff the total is >= 4, also for a
\* record with a data-quality issue: the record with an invalid temperature,
\* "120/80" and age 45 has a data-quality issue and is high risk.
C13_TotalAndHighRisk ==
  ret.called =>
    /\ ret.total = ret.bpRisk + ret.tempRisk + ret.ageRisk
    /\ ~ret.bp.isValid => ret.bpRisk = 0
    /\ ~ret.temperature.isValid => ret.tempRisk = 0
    /\ ~ret.age.isValid => ret.ageRisk = 0
    /\ ret.highRisk = (ret.total >= 4)
    /\ arg = InvalidTemperatureRecord => (ret.dataQuality /\ ret.highRisk)

\* the record with an invalid temperature, "120/80" and age 45 totals 4 and
\* has both a data-quality issue and a high risk
C13_Witness ==
  /\ ret.called
  /\ arg = InvalidTemperatureRecord
  /\ ret.total = 4
  /\ ret.dataQuality
  /\ ret.highRisk

\* a decimal numeral: an optional sign, then digits with at most one ".",
\* at least one digit, and nothing else
Unsigned(cs) ==
  IF cs # <<>> /\ Head(cs) \in {"+", "-"} THEN Tail(cs) ELSE cs

IsNumeral(cs) ==
  /\ \A i \in DOMAIN Unsigned(cs) : Unsigned(cs)[i] \in Digits \cup {"."}
  /\ Cardinality({i \in DOMAIN Unsigned(cs) : Unsigned(cs)[i] = "."}) <= 1
  /\ \E i \in DOMAIN Unsigned(cs) : Unsigned(cs)[i] \in Digits

\* the number a decimal numeral denotes
NumeralValue(cs) ==
  Num((IF cs[1] = "-" THEN -1 ELSE 1)
        * DigitsValue(SelectSeq(cs, LAMBDA c : c \in Digits), 0),
      IF \E i \in DOMAIN cs : cs[i] = "."
      THEN Len(cs) - (CHOOSE i \in DOMAIN cs : cs[i] = ".")
      ELSE 0)

\* the number a field value stands for: the number itself, or the number
\* its text denotes, white space around it aside; NaN when there is none
Denoted(v) ==
  IF v.t = "number" THEN v
  ELSE IF v.t = "string" /\ IsNumeral(Trim(v.s)) THEN NumeralValue(Trim(v.s))
  ELSE NaN

\* v stands for a number in the range 0 < v <= hi
DenotesWithin(v, hi) ==
  /\ ~IsNaN(Denoted(v))
  /\ NumGT(Denoted(v), Int10(0))
  /\ NumLE(Denoted(v), Int10(hi))

\* C14: parseTemperature and parseAge are valid, with the value v, exactly
\* on a number v or the text of a number v with 0 < v <= 120 (temperature)
\* or 0 < v <= 150 (age); every other input (out of range, non-numeric
\* text, null, undefined, "", "null", "undefined") is invalid with a null
\* value.
C14_NumberAndTextAlike ==
  ret.called =>
    /\ ret.temperature.isValid = DenotesWithin(arg.temperature, 120)
    /\ ret.temperature.isValid =>
         NumEq(ret.temperature.temperature, Denoted(arg.temperature))
    /\ ~ret.temperature.isValid => ret.temperature.temperature = Null
    /\ ret.age.isValid = DenotesWithin(arg.age, 150)
    /\ ret.age.isValid => NumEq(ret.age.age, Denoted(arg.age))
    /\ ~ret.age.isValid => ret.age.age = Null

\* the text is two segments around one "/", each a decimal numeral greater
\* than zero, white space around a segment aside
WellFormedBloodPressure(v) ==
  /\ v.t = "string"
  /\ Len(Split(Trim(v.s))) = 2
  /\ \A i \in 1..2 :
       /\ IsNumeral(Trim(Split(Trim(v.s))[i]))
       /\ NumGT(NumeralValue(Trim(Split(Trim(v.s))[i])), Int10(0))

\* C15: parseBloodPressure is valid only on a string of two non-empty
\* segments around exactly one "/", each whole segment a decimal number
\* greater than zero; a segment that is a number followed by other
\* characters, a missing segment, a non-string and the strings "", "null",
\* "undefined" are invalid.
C15_WholeSegments ==
  ret.called =>
    /\ ret.bp.isValid => WellFormedBloodPressure(arg.blood_pressure)
    /\ ~ret.bp.isValid =>
         (ret.bp.systolic = Null /\ ret.bp.diastolic = Null)

----------------------------------------------------------------------------
(* Properties of the waits of the client *)

\* the request ended with every allowed attempt failed
Rejected == completed.done /\ completed.outcome = "rejected"

\* the sleeps of one kind in a sequence of sleeps
SleepsOf(kind, sleeps) == SelectSeq(sleeps, LAMBDA w : w.kind = kind)

\* C16: after attempt k < maxAttempts fails, the wait before attempt k+1 is
\* exactly baseDelay * 2^(k-1); after attempt maxAttempts fails, the error
\* is propagated with no backoff wait.
C16_BackoffDelay ==
  /\ pc = "sleepBackoff" =>
       /\ attempt < maxAttempts
       /\ failures = attempt
       /\ SleepsOf("backoff", waits)
            = <<Sleep("backoff", RETRY_DELAY * 2^(attempt - 1))>>
       /\ waits[Len(waits)].kind = "backoff"
  /\ (pc = "awaitFetch" /\ attempt > 1) =>
       /\ SleepsOf("backoff", waits)
            = <<Sleep("backoff", RETRY_DELAY * 2^(attempt - 2))>>
       /\ waits[Len(waits)].kind = "backoff"
  /\ Rejected =>
       /\ completed.failures = maxAttempts
       /\ SleepsOf("backoff", waits) = <<>>
       /\ Len(backoffs) = maxAttempts - 1

\* attempt 3 is pending after the wait that followed the failure of
\* attempt 2
C16_Witness ==
  /\ pc = "awaitFetch"
  /\ attempt = 3
  /\ failures = 2
  /\ waits = <<Sleep("backoff", 2 * RETRY_DELAY)>>

C19_RateLimitThenBackoff ==
  /\ pc = "sleepRateLimit" =>
       /\ waits = <<Sleep("rateLimit", RATE_LIMIT_DELAY)>>
       /\ failures = attempt - 1
  /\ (pc = "sleepBackoff" /\ lastError.kind = "RateLimited") =>
       waits = << Sleep("rateLimit", RATE_LIMIT_DELAY),
                  Sleep("backoff", RETRY_DELAY * 2^(attempt - 1)) >>
  /\ (pc = "awaitFetch" /\ attempt > 1 /\ lastError.kind = "RateLimited") =>
       waits = << Sleep("rateLimit", RATE_LIMIT_DELAY),
                  Sleep("backoff", RETRY_DELAY * 2^(attempt - 2)) >>
  /\ (pc \in {"sleepBackoff", "awaitFetch"} /\ attempt > 1
        /\ lastError.kind # "RateLimited") =>
       SleepsOf("rateLimit", waits) = <<>>
  /\ (Rejected /\ completed.value.kind = "RateLimited") =>
       waits = <<Sleep("rateLimit", RATE_LIMIT_DELAY)>>
  /\ (Rejected /\ completed.value.kind # "RateLimited") => waits = <<>>

\* the third of three attempts was answered 429 after a 429 on the second:
\* the request was rejected after the rate-limit wait alone
C19_Witness ==
  /\ Rejected
  /\ maxAttempts = 3
  /\ completed.value.kind = "RateLimited"
  /\ waits = <<Sleep("rateLimit", RATE_LIMIT_DELAY)>>
  /\ backoffs = <<1000, 2000>>

\* C20: the first request for page k+1 comes after exactly one inter-page
\* delay, made when page k reported a next page; the request for page 1 and
\* whatever follows the last page (the page reporting no next page or
\* carrying no pagination) come after no inter-page delay.
C20_InterPageDelay ==
  /\ pc = "sleepInterPage" =>
       /\ waits = <<Sleep("interPage", INTER_PAGE_DELAY)>>
       /\ served[Len(served)].pagination = "next"
       /\ currentPage = Len(served) + 1
  /\ (pc = "awaitFetch" /\ calls = 1 /\ request.kind = "patients") =>
       /\ request.page = Len(served) + 1
       /\ waits = IF request.page = 1 THEN <<>>
                  ELSE <<Sleep("interPage", INTER_PAGE_DELAY)>>
  /\ (pc = "awaitFetch" /\ request.kind = "patients") =>
       Len(SleepsOf("interPage", waits)) <= 1
  /\ fetched.returned =>
       /\ served[Len(served)].pagination \in {"none", "last"}
       /\ SleepsOf("interPage", waits) = <<>>

\* page 2 is requested for the first time, after one inter-page delay
C20_Witness ==
  /\ pc = "awaitFetch"
  /\ request = PatientsRequest(2, MAX_LIMIT)
  /\ calls = 1
  /\ waits = <<Sleep("interPage", INTER_PAGE_DELAY)>>

----------------------------------------------------------------------------
(* Properties of a second run on the same instance *)

\* C18: in a second runAssessment on the same instance, the patient
\* sequence analysed is the sequence fetched in that run, and the result
\* sets are those of that sequence alone.
C18_CurrentRunOnly ==
  (runs = 2 /\ fetched.returned /\ Len(steps) >= 2) =>
    /\ patients = fetched.items
    /\ results = analyze(fetched.items, EmptyResults)

----------------------------------------------------------------------------
(* Properties of the blood-pressure bands between the integers *)

\* a valid reading with systolic < 120
LowSystolic == ret.bp.isValid /\ NumLT(ret.bp.systolic, Int10(120))

\* C22: a valid reading with systolic < 120 and diastolic >= 80 but < 90
\* matches none of the four bands and is scored Normal (1) by the fallback.
C22_FallbackNormal ==
  (/\ ret.called
   /\ LowSystolic
   /\ NumGE(ret.bp.diastolic, Int10(80))
   /\ NumLT(ret.bp.diastolic, Int10(90))) => ret.bpRisk = 1

\* C22 as the code has it: with systolic < 120, a diastolic from 80 to 89
\* is Stage 1 (3); only a diastolic above 89 and below 90 matches none of
\* the four bands and is scored Normal (1) by the fallback.
C22_GapFallsBackToNormal ==
  (ret.called /\ LowSystolic) =>
    /\ InRange(ret.bp.diastolic, 80, 89) => ret.bpRisk = 3
    /\ (/\ NumGT(ret.bp.diastolic, Int10(89))
        /\ NumLT(ret.bp.diastolic, Int10(90))) => ret.bpRisk = 1

\* "119/89.5" has been scored 1
C22_Witness ==
  /\ ret.called
  /\ arg.blood_pressure = Slash(<<"1", "1", "9">>, <<"8", "9", ".", "5">>)
  /\ ret.bpRisk = 1

\* the score of the reading whose text is sys "/" dia
ScoreOf(sys, dia) == calculateBloodPressureRisk(Slash(sys, dia))

\* C26: over the valid readings, those between the integers included, the
\* blood-pressure score never drops when the systolic value is raised with
\* the diastolic value fixed, or the diastolic value is raised with the
\* systolic value fixed.
C26_ScoreMonotone ==
  ret.called =>
    \A sys \in SystolicTexts, dia \in DiastolicTexts :
      (arg.blood_pressure = Slash(sys, dia) /\ ret.bp.isValid) =>
        /\ \A higher \in SystolicTexts :
             NumGE(ParseFloat(higher), ParseFloat(sys)) =>
               ScoreOf(higher, dia) >= ret.bpRisk
        /\ \A higher \in DiastolicTexts :
             NumGE(ParseFloat(higher), ParseFloat(dia)) =>
               ScoreOf(sys, higher) >= ret.bpRisk

----------------------------------------------------------------------------
(* Properties of the order of the result sets *)

\* a <= b in lexicographic order: a is a prefix of b, or the first code
\* unit in which they differ is smaller in a
LexLE(a, b) ==
  \E k \in 0..Len(a) :
    /\ k <= Len(b)
    /\ \A i \in 1..k : a[i] = b[i]
    /\ \/ k = Len(a)
       \/ (k < Len(b) /\ CodeUnit(a[k + 1]) < CodeUnit(b[k + 1]))

Ascending(seq) == \A i \in 1..(Len(seq) - 1) : LexLE(seq[i], seq[i + 1])

\* C23: each of the three result sets returned by analyze is in ascending
\* lexicographic order of identifier, whatever the order of the records.
C23_ResultsSorted ==
  Analyzed =>
    /\ Ascending(results.highRiskPatients)
    /\ Ascending(results.feverPatients)
    /\ Ascending(results.dataQualityIssues)

\* "P2" was added before "P10", both with a fever, and analyze returned
\* "P10" before "P2"
C23_Witness ==
  /\ Analyzed
  /\ Len(patients) = 2
  /\ patients[1].patient_id = <<"P", "2">>
  /\ patients[2].patient_id = <<"P", "1", "0">>
  /\ results.feverPatients = << <<"P", "1", "0">>, <<"P", "2">> >>

----------------------------------------------------------------------------
(* Properties of the breakdown of one patient *)

\* C24: the scores of RiskAnalyzer.getBloodPressureRisk, getTemperatureRisk
\* and getAgeRisk equal those of calculateBloodPressureRisk,
\* calculateTemperatureRisk and calculateAgeRisk on the same input, so the
\* three riskBreakdown scores of getPatientAnalysis sum to totalRiskScore.
C24_BreakdownAgrees ==
  ret.called =>
    /\ ret.analysis # Null
    /\ ret.analysis.riskBreakdown.bloodPressure.score = ret.bpRisk
    /\ ret.analysis.riskBreakdown.temperature.score = ret.tempRisk
    /\ ret.analysis.riskBreakdown.age.score = ret.ageRisk
    /\ ret.analysis.totalRiskScore =
         ret.analysis.riskBreakdown.bloodPressure.score
           + ret.analysis.riskBreakdown.temperature.score
           + ret.analysis.riskBreakdown.age.score

\* a record whose three fields all score: Stage 1 by the diastolic value
\* alone, a low fever given as text, an age over 65
C24_Witness ==
  /\ ret.called
  /\ arg.blood_pressure = Slash(<<"9", "0">>, <<"8", "0">>)
  /\ arg.temperature = Str(<<"1", "0", "0", ".", "0">>)
  /\ ret.analysis.riskBreakdown.bloodPressure.category = "Stage 1"
  /\ ret.analysis.riskBreakdown.temperature.category = "Low Fever"
  /\ ret.analysis.riskBreakdown.age.category = "Over 65"
  /\ ret.analysis.totalRiskScore = 6

----------------------------------------------------------------------------
(* Properties of the summary *)

\* C25: in every state reached by addPatients, analyze and clear calls,
\* getSummary returns validPatients + dataQualityCount = totalPatients, and
\* dataQualityPercentage 0 when totalPatients is 0.
C25_SummaryConsistent ==
  ret.called =>
    /\ ret.summary.validPatients + ret.summary.dataQualityCount
         = ret.summary.totalPatients
    /\ ret.summary.totalPatients = 0 =>
         ret.summary.dataQualityPercentage = Int10(0)

----------------------------------------------------------------------------
(* Properties of the end of the traversal *)

LastServed == served[Len(served)]

\* getAllPatients is running: called and neither returned nor thrown
Traversing == runResult.state = "running" /\ ~fetched.returned

\* C21: when the transport answers every request and the endpoint stops
\* reporting a next page, getAllPatients returns or throws; it goes on to the
\* next page exactly while the last successful response reports hasNext
\* true (it has returned exactly when the last page received reports no next
\* page, and until then the page after the last one received is the one
\* being waited for or requested), whatever the number of pages.
C21_TraversalTerminates ==
  /\ [](served # <<>> =>
          /\ hasNext = (LastServed.pagination = "next")
          /\ fetched.returned = (LastServed.pagination # "next"))
  /\ []((Traversing /\ served # <<>>) =>
          /\ currentPage = Len(served) + 1
          /\ \/ pc = "sleepInterPage"
             \/ request = PatientsRequest(currentPage, MAX_LIMIT))
  /\ [](served = <<>> => ~fetched.returned)
  /\ Traversing ~> (fetched.returned \/ runResult.state = "thrown")

\* getAllPatients returned after two pages, the first reporting a next page
C21_Witness ==
  /\ fetched.returned
  /\ Len(served) = 2
  /\ served[1].pagination = "next"
  /\ fetched.items = served[1].data \o served[2].data

====
